---- MODULE Spec2Model ----
(***************************************************************************)
(* bitcoin-tool (main.c): one invocation of the command-line tool, from    *)
(* main() through BitcoinTool_run() to the process exit code.              *)
(*                                                                         *)
(* The tool object is the state; each stage of BitcoinTool_run and each    *)
(* case label of the fall-through switch in Bitcoin_ConvertInputToOutput   *)
(* is one action.  Byte buffers are sequences of naturals below 256.       *)
(* Hashing, key derivation and the text codecs live in headers outside     *)
(* main.c; they are modelled by their contracts (fixed output sizes,       *)
(* success or error).                                                      *)
(***************************************************************************)
EXTENDS Integers, Sequences, FiniteSets, TLC

VARIABLES
    pc,                    \* position in main / BitcoinTool_run
    tty,                   \* isatty(fileno(stdin))
    options,               \* struct BitcoinToolOptions
    input_raw,             \* input_raw[0 .. input_raw_size-1]
    private_key,           \* struct BitcoinPrivateKey: data, public_key_compression
    public_key,            \* struct BitcoinPublicKey: data, compression
    public_key_sha256,     \* struct BitcoinSHA256 data
    public_key_ripemd160,  \* struct BitcoinRIPEMD160 data
    address,               \* struct BitcoinAddress data
    is_set,                \* the six *_set flags
    output_raw,            \* output_raw, its first 65 bytes (no more are ever written)
    output_raw_size,       \* output_raw_size
    output_text,           \* output_text / output_text_size
    stdout,                \* everything written to standard output, in order
    calls,                 \* derivation functions called by the conversion, in order
    stages,                \* stages executed so far with the result each returned
    type_idx,              \* output_type cursor of Bitcoin_WriteAllOutput
    format_idx,            \* output_format cursor of Bitcoin_WriteAllOutput
    enc_calls,             \* number of encoder calls so far
    run_result,            \* return value of BitcoinTool_run
    exit_code              \* process exit status, -1 while running

vars == <<pc, tty, options, input_raw, private_key, public_key,
          public_key_sha256, public_key_ripemd160, address, is_set,
          output_raw, output_raw_size, output_text, stdout, calls, stages, type_idx,
          format_idx, enc_calls, run_result, exit_code>>

(***************************************************************************)
(* Bounds of the model.                                                    *)
(***************************************************************************)
\* only the first MaxFailingCalls encoder calls of a run may return an error
MaxFailingCalls == 2
\* sample keys and hashes are the byte ramps (a * i + b) % 256, a in 0 .. MaxSlope
MaxSlope == 7

(***************************************************************************)
(* Program constants.                                                      *)
(***************************************************************************)
BITCOIN_PRIVATE_KEY_SIZE == 32
BITCOIN_PRIVATE_KEY_WIF_VERSION_SIZE == 1
BITCOIN_PRIVATE_KEY_WIF_COMPRESSION_FLAG_SIZE == 1
BITCOIN_PRIVATE_KEY_WIF_UNCOMPRESSED_SIZE == 33
BITCOIN_PRIVATE_KEY_WIF_COMPRESSED_SIZE == 34
BITCOIN_PRIVATE_KEY_WIF_COMPRESSION_FLAG_COMPRESSED == 1
BITCOIN_PUBLIC_KEY_UNCOMPRESSED_SIZE == 65
BITCOIN_PUBLIC_KEY_COMPRESSED_SIZE == 33
BITCOIN_SHA256_SIZE == 32
BITCOIN_RIPEMD160_SIZE == 20
BITCOIN_ADDRESS_SIZE == 21
BITCOIN_ADDRESS_VERSION_SIZE == 1
BITCOIN_ADDRESS_PREFIX_BITCOIN_PUBKEY_HASH == 0
BITCOIN_ADDRESS_PREFIX_BITCOIN_PRIVATE_KEY == 128
EXIT_SUCCESS == 0
EXIT_FAILURE == 1

BITCOIN_PUBLIC_KEY_COMPRESSED == "COMPRESSED"
BITCOIN_PUBLIC_KEY_UNCOMPRESSED == "UNCOMPRESSED"

\* the compression tag of a calloc'ed key: the enumerator whose value is 0
CallocCompression == BITCOIN_PUBLIC_KEY_UNCOMPRESSED

BITCOIN_SUCCESS == "BITCOIN_SUCCESS"
BITCOIN_ERROR_INVALID_FORMAT == "BITCOIN_ERROR_INVALID_FORMAT"
BITCOIN_ERROR_PRIVATE_KEY_INVALID_FORMAT == "BITCOIN_ERROR_PRIVATE_KEY_INVALID_FORMAT"
BITCOIN_ERROR_PUBLIC_KEY_INVALID_FORMAT == "BITCOIN_ERROR_PUBLIC_KEY_INVALID_FORMAT"
BITCOIN_ERROR_IMPOSSIBLE_CONVERSION == "BITCOIN_ERROR_IMPOSSIBLE_CONVERSION"
\* error of the key-derivation capability and of the codec capability
DerivationError == "DerivationError"
EncodeError == "EncodeError"
\* the BitcoinResult that the literal 0 of "return 0" denotes
ZeroResult == BITCOIN_SUCCESS

(***************************************************************************)
(* enum InputType / OutputType / formats / PublicKeyCompression.           *)
(***************************************************************************)
RepresentationTypes ==
    {"ADDRESS", "PUBLIC_KEY_RIPEMD160", "PUBLIC_KEY_SHA256", "PUBLIC_KEY",
     "PRIVATE_KEY_WIF", "PRIVATE_KEY"}
InputType == {"NONE"} \cup RepresentationTypes
OutputType == {"NONE", "ALL"} \cup RepresentationTypes
InputFormat == {"NONE", "RAW", "HEX", "BASE58", "BASE58CHECK"}
OutputFormat == {"NONE", "RAW", "HEX", "BASE58", "BASE58CHECK"}
PublicKeyCompression == {"AUTO", "COMPRESSED", "UNCOMPRESSED"}

(***************************************************************************)
(* Byte-buffer helpers.                                                    *)
(***************************************************************************)
Zeros(n) == [i \in 1..n |-> 0]

\* memcpy(dst + off, src, n)
Memcpy(dst, off, src, n) ==
    [i \in DOMAIN dst |-> IF i > off /\ i <= off + n THEN src[i - off] ELSE dst[i]]

\* src[off .. off+n-1] as a sequence (the source operand "src + off" of a memcpy)
Bytes(src, off, n) == [i \in 1..n |-> src[off + i]]

RECURSIVE ByteSum(_)
ByteSum(s) == IF s = <<>> THEN 0 ELSE (Head(s) + ByteSum(Tail(s))) % 256

(***************************************************************************)
(* The inputs a run is given: raw lengths at and around every expected     *)
(* size.  Byte 0 and the last byte take two values at the lengths where    *)
(* the code reads them as a version byte and a compression flag.           *)
(***************************************************************************)
InputSizes == {19, 20, 21, 32, 33, 34, 65}
InputEnds(n) == IF n \in {33, 34} THEN {<<128, 1>>, <<0, 9>>} ELSE {<<0, 9>>}
InputBytes(n, ends) ==
    [i \in 1..n |-> IF i = 1 THEN ends[1] ELSE IF i = n THEN ends[2] ELSE (5 * i) % 256]

(***************************************************************************)
(* External capabilities (hash.h, ec.h): fixed-size deterministic results.  *)
(***************************************************************************)
\* Bitcoin_SHA256(output, data, size)
Bitcoin_SHA256(data) ==
    [i \in 1..BITCOIN_SHA256_SIZE |-> (ByteSum(data) + 3 * Len(data) + 7 * i) % 256]

\* Bitcoin_RIPEMD160(output, data, size)
Bitcoin_RIPEMD160(data) ==
    [i \in 1..BITCOIN_RIPEMD160_SIZE |-> (2 * ByteSum(data) + Len(data) + 11 * i) % 256]

\* size of a public key, decided by its compression tag
BitcoinPublicKey_GetSize(key) ==
    IF key.compression = BITCOIN_PUBLIC_KEY_COMPRESSED
    THEN BITCOIN_PUBLIC_KEY_COMPRESSED_SIZE
    ELSE BITCOIN_PUBLIC_KEY_UNCOMPRESSED_SIZE

BitcoinPrivateKey_GetSize(key) == BITCOIN_PRIVATE_KEY_SIZE

\* Bitcoin_MakePublicKeyFromPrivateKey on success: the key for the tag of the private key
Bitcoin_MakePublicKeyFromPrivateKey(key) ==
    LET x == [i \in 1..32 |-> (ByteSum(key.data) + 13 * i) % 256]
        y == [i \in 1..32 |-> (3 * ByteSum(key.data) + 17 * i) % 256]
    IN  IF key.public_key_compression = BITCOIN_PUBLIC_KEY_COMPRESSED
        THEN [data |-> Memcpy(Zeros(BITCOIN_PUBLIC_KEY_UNCOMPRESSED_SIZE), 0,
                              <<2 + (y[32] % 2)>> \o x, BITCOIN_PUBLIC_KEY_COMPRESSED_SIZE),
              compression |-> BITCOIN_PUBLIC_KEY_COMPRESSED]
        ELSE [data |-> <<4>> \o x \o y,
              compression |-> BITCOIN_PUBLIC_KEY_UNCOMPRESSED]

(***************************************************************************)
(* Derivation helpers of main.c.                                           *)
(***************************************************************************)
Bitcoin_MakeAddressFromRIPEMD160(addr, hash) ==
    [Memcpy(addr, 1, hash, BITCOIN_RIPEMD160_SIZE)
        EXCEPT ![1] = BITCOIN_ADDRESS_PREFIX_BITCOIN_PUBKEY_HASH]

\* Bitcoin_MakeRIPEMD160FromAddress copying from the start of the address
Bitcoin_MakeRIPEMD160FromAddress_NoSkip(hash, addr) ==
    Memcpy(hash, 0, Bytes(addr, 0, BITCOIN_RIPEMD160_SIZE), BITCOIN_RIPEMD160_SIZE)

Bitcoin_MakeRIPEMD160FromAddress(hash, addr) ==
    Memcpy(hash, 0, Bytes(addr, BITCOIN_ADDRESS_VERSION_SIZE, BITCOIN_RIPEMD160_SIZE),
           BITCOIN_RIPEMD160_SIZE)

Bitcoin_MakeRIPEMD160FromSHA256(input_hash) ==
    Bitcoin_RIPEMD160(Bytes(input_hash, 0, BITCOIN_SHA256_SIZE))

Bitcoin_MakeSHA256FromPublicKey(key) ==
    Bitcoin_SHA256(Bytes(key.data, 0, BitcoinPublicKey_GetSize(key)))

(***************************************************************************)
(* Init: the tool object as BitcoinTool_create leaves it (calloc).         *)
(***************************************************************************)
NoFlags == [t \in RepresentationTypes |-> FALSE]

\* output_text before any encoder wrote it: sizeof(output_text) NUL bytes
ZeroText == [format |-> "NONE", payload |-> <<>>]

Init ==
    /\ pc = "main"
    /\ tty \in BOOLEAN
    /\ options = [input_type |-> "NONE", input_format |-> "NONE",
                  output_type |-> "NONE", output_format |-> "NONE",
                  public_key_compression |-> "AUTO"]
    /\ input_raw = <<>>
    /\ private_key = [data |-> Zeros(BITCOIN_PRIVATE_KEY_SIZE),
                      public_key_compression |-> CallocCompression]
    /\ public_key = [data |-> Zeros(BITCOIN_PUBLIC_KEY_UNCOMPRESSED_SIZE),
                     compression |-> CallocCompression]
    /\ public_key_sha256 = Zeros(BITCOIN_SHA256_SIZE)
    /\ public_key_ripemd160 = Zeros(BITCOIN_RIPEMD160_SIZE)
    /\ address = Zeros(BITCOIN_ADDRESS_SIZE)
    /\ is_set = NoFlags
    /\ output_raw = Zeros(BITCOIN_PUBLIC_KEY_UNCOMPRESSED_SIZE)
    /\ output_raw_size = 0
    /\ output_text = ZeroText
    /\ stdout = <<>>
    /\ calls = <<>>
    /\ stages = <<>>
    /\ type_idx = 1
    /\ format_idx = 1
    /\ enc_calls = 0
    /\ run_result = 0
    /\ exit_code = -1

buffers == <<private_key, public_key, public_key_sha256, public_key_ripemd160, address>>
outvars == <<output_raw, output_raw_size, output_text, stdout, type_idx, format_idx,
             enc_calls>>

Log(stage, result) == Append(stages, [stage |-> stage, result |-> result])

(***************************************************************************)
(* main: parseOptions.                                                     *)
(***************************************************************************)
\* BitcoinTool_parseOptions returns non-zero: every flag value it accepts
ParseOptionsOk ==
    /\ pc = "main"
    /\ \E it \in InputType, if \in InputFormat, ot \in OutputType,
          of \in OutputFormat, c \in PublicKeyCompression :
          options' = [input_type |-> it, input_format |-> if, output_type |-> ot,
                      output_format |-> of, public_key_compression |-> c]
    /\ pc' = "run"
    /\ UNCHANGED <<tty, input_raw, buffers, is_set, outvars, calls, stages,
                   run_result, exit_code>>

\* BitcoinTool_parseOptions returns 0 (unknown option, missing value, no input,
\* no argument at all): main returns EXIT_FAILURE without running
ParseOptionsFail ==
    /\ pc = "main"
    /\ pc' = "exit"
    /\ exit_code' = EXIT_FAILURE
    /\ UNCHANGED <<tty, options, input_raw, buffers, is_set, outvars, calls, stages,
                   run_result>>

\* BitcoinTool_run returns r to main
RunReturns(r) ==
    /\ run_result' = r
    /\ pc' = "returned"

\* main: return result ? EXIT_SUCCESS : EXIT_FAILURE
ExitCodeOf(result) == IF result # 0 THEN EXIT_SUCCESS ELSE EXIT_FAILURE

MainReturn ==
    /\ pc = "returned"
    /\ exit_code' = ExitCodeOf(run_result)
    /\ pc' = "exit"
    /\ UNCHANGED <<tty, options, input_raw, buffers, is_set, outvars, calls, stages,
                   run_result>>

(***************************************************************************)
(* Bitcoin_ParseInput.                                                     *)
(***************************************************************************)
\* the caller's test "Bitcoin_ParseInput(self) != BITCOIN_SUCCESS"
AfterParseInput(result) ==
    /\ stages' = Log("Bitcoin_ParseInput", result)
    /\ IF result # BITCOIN_SUCCESS
       THEN RunReturns(0)
       ELSE pc' = "check" /\ UNCHANGED run_result

\* no input could be acquired (file unreadable, empty or oversized input): return 0
ParseInputNoInput ==
    /\ pc = "run"
    /\ input_raw' = <<>>
    /\ AfterParseInput(ZeroResult)
    /\ UNCHANGED <<tty, options, buffers, is_set, outvars, calls, exit_code>>

\* the decoder of the input format rejects the text, or no input format was given
ParseInputInvalid ==
    /\ pc = "run"
    /\ options.input_format # "RAW"
    /\ input_raw' = <<>>
    /\ AfterParseInput(BITCOIN_ERROR_INVALID_FORMAT)
    /\ UNCHANGED <<tty, options, buffers, is_set, outvars, calls, exit_code>>

\* raw input copied, or hex / base58 / base58check text decoded, to input_raw
ParseInputOk ==
    /\ pc = "run"
    /\ options.input_format \in {"RAW", "HEX", "BASE58", "BASE58CHECK"}
    /\ \E n \in InputSizes : \E ends \in InputEnds(n) : input_raw' = InputBytes(n, ends)
    /\ AfterParseInput(BITCOIN_SUCCESS)
    /\ UNCHANGED <<tty, options, buffers, is_set, outvars, calls, exit_code>>

(***************************************************************************)
(* Bitcoin_CheckInputSize.                                                 *)
(***************************************************************************)
\* ExpectedSizes with the hinted WIF sizes let through for a private key
ExpectedSizes_Hinted(t) ==
    CASE t = "PRIVATE_KEY" -> {BITCOIN_PRIVATE_KEY_SIZE,
                               BITCOIN_PRIVATE_KEY_WIF_UNCOMPRESSED_SIZE,
                               BITCOIN_PRIVATE_KEY_WIF_COMPRESSED_SIZE}
      [] t = "PRIVATE_KEY_WIF" -> {BITCOIN_PRIVATE_KEY_WIF_UNCOMPRESSED_SIZE,
                                   BITCOIN_PRIVATE_KEY_WIF_COMPRESSED_SIZE}
      [] t = "PUBLIC_KEY" -> {BITCOIN_PUBLIC_KEY_UNCOMPRESSED_SIZE,
                              BITCOIN_PUBLIC_KEY_COMPRESSED_SIZE}
      [] t = "PUBLIC_KEY_SHA256" -> {BITCOIN_SHA256_SIZE}
      [] t = "PUBLIC_KEY_RIPEMD160" -> {BITCOIN_RIPEMD160_SIZE}
      [] t = "ADDRESS" -> {BITCOIN_ADDRESS_SIZE}
      [] OTHER -> {}

\* the raw sizes the size test of each case lets through
ExpectedSizes(t) ==
    CASE t = "PRIVATE_KEY" -> {BITCOIN_PRIVATE_KEY_SIZE}
      [] t = "PRIVATE_KEY_WIF" -> {BITCOIN_PRIVATE_KEY_WIF_UNCOMPRESSED_SIZE,
                                   BITCOIN_PRIVATE_KEY_WIF_COMPRESSED_SIZE}
      [] t = "PUBLIC_KEY" -> {BITCOIN_PUBLIC_KEY_UNCOMPRESSED_SIZE,
                              BITCOIN_PUBLIC_KEY_COMPRESSED_SIZE}
      [] t = "PUBLIC_KEY_SHA256" -> {BITCOIN_SHA256_SIZE}
      [] t = "PUBLIC_KEY_RIPEMD160" -> {BITCOIN_RIPEMD160_SIZE}
      [] t = "ADDRESS" -> {BITCOIN_ADDRESS_SIZE}
      [] OTHER -> {}

\* the error each case returns on a size mismatch (default: unknown input)
SizeError(t) ==
    CASE t \in {"PRIVATE_KEY", "PRIVATE_KEY_WIF"} -> BITCOIN_ERROR_PRIVATE_KEY_INVALID_FORMAT
      [] t = "PUBLIC_KEY" -> BITCOIN_ERROR_PUBLIC_KEY_INVALID_FORMAT
      [] OTHER -> BITCOIN_ERROR_INVALID_FORMAT

\* the hint appended to the private-key diagnostic
PrivateKeySizeHint(n) ==
    n \in {BITCOIN_PRIVATE_KEY_WIF_UNCOMPRESSED_SIZE, BITCOIN_PRIVATE_KEY_WIF_COMPRESSED_SIZE}

\* WIFCompressionOfSize with the two cases exchanged
WIFCompressionOfSize_Swapped(n) ==
    IF n = BITCOIN_PRIVATE_KEY_WIF_COMPRESSED_SIZE
    THEN BITCOIN_PUBLIC_KEY_UNCOMPRESSED
    ELSE BITCOIN_PUBLIC_KEY_COMPRESSED

\* switch (input_raw_size) of the WIF case
WIFCompressionOfSize(n) ==
    IF n = BITCOIN_PRIVATE_KEY_WIF_COMPRESSED_SIZE
    THEN BITCOIN_PUBLIC_KEY_COMPRESSED
    ELSE BITCOIN_PUBLIC_KEY_UNCOMPRESSED

\* switch (input_raw_size) of the public-key case
PublicKeyCompressionOfSize(n) ==
    IF n = BITCOIN_PUBLIC_KEY_COMPRESSED_SIZE
    THEN BITCOIN_PUBLIC_KEY_COMPRESSED
    ELSE BITCOIN_PUBLIC_KEY_UNCOMPRESSED

Bitcoin_CheckInputSize ==
    /\ pc = "check"
    /\ LET t == options.input_type
           n == Len(input_raw)
       IN  IF n \notin ExpectedSizes(t)
           THEN /\ stages' = Log("Bitcoin_CheckInputSize", SizeError(t))
                /\ RunReturns(0)
                /\ UNCHANGED <<buffers, is_set>>
           ELSE /\ stages' = Log("Bitcoin_CheckInputSize", BITCOIN_SUCCESS)
                /\ pc' = "override"
                /\ UNCHANGED run_result
                /\ is_set' = [is_set EXCEPT ![t] = TRUE]
                /\ private_key' =
                     CASE t = "PRIVATE_KEY" ->
                            [private_key EXCEPT !.data = Memcpy(@, 0, input_raw, n)]
                       [] t = "PRIVATE_KEY_WIF" ->
                            [data |-> Memcpy(private_key.data, 0,
                                             Bytes(input_raw, BITCOIN_PRIVATE_KEY_WIF_VERSION_SIZE,
                                                   BITCOIN_PRIVATE_KEY_SIZE),
                                             BITCOIN_PRIVATE_KEY_SIZE),
                             public_key_compression |-> WIFCompressionOfSize(n)]
                       [] OTHER -> private_key
                /\ public_key' =
                     IF t = "PUBLIC_KEY"
                     THEN [data |-> Memcpy(public_key.data, 0, input_raw, n),
                           compression |-> PublicKeyCompressionOfSize(n)]
                     ELSE public_key
                \* the SHA256 case raises its flag and copies nothing
                /\ public_key_sha256' = public_key_sha256
                /\ public_key_ripemd160' =
                     IF t = "PUBLIC_KEY_RIPEMD160"
                     THEN Memcpy(public_key_ripemd160, 0, input_raw, BITCOIN_RIPEMD160_SIZE)
                     ELSE public_key_ripemd160
                /\ address' =
                     IF t = "ADDRESS"
                     THEN Memcpy(address, 0, input_raw, BITCOIN_ADDRESS_SIZE)
                     ELSE address
    /\ UNCHANGED <<tty, options, input_raw, outvars, calls, exit_code>>

(***************************************************************************)
(* BitcoinTool_run: "has user asked to override public key compression?"   *)
(***************************************************************************)
\* OverrideOf with the auto case falling into the compressed case
OverrideOf_AutoCompressed(option, tag) ==
    CASE option \in {"COMPRESSED", "AUTO"} -> BITCOIN_PUBLIC_KEY_COMPRESSED
      [] option = "UNCOMPRESSED" -> BITCOIN_PUBLIC_KEY_UNCOMPRESSED
      [] OTHER -> tag

\* OverrideOf with the uncompressed case left empty
OverrideOf_UncompressedKeeps(option, tag) ==
    CASE option = "COMPRESSED" -> BITCOIN_PUBLIC_KEY_COMPRESSED
      [] OTHER -> tag

\* the tag the switch on options.public_key_compression leaves in the private key
OverrideOf(option, tag) ==
    CASE option = "COMPRESSED" -> BITCOIN_PUBLIC_KEY_COMPRESSED
      [] option = "UNCOMPRESSED" -> BITCOIN_PUBLIC_KEY_UNCOMPRESSED
      [] OTHER -> tag

OverrideCompression ==
    /\ pc = "override"
    /\ private_key' = [private_key EXCEPT !.public_key_compression =
                          OverrideOf(options.public_key_compression, @)]
    \* Bitcoin_ConvertInputToOutput: switch (self->options.input_type)
    /\ pc' = options.input_type
    /\ UNCHANGED <<tty, options, input_raw, public_key, public_key_sha256,
                   public_key_ripemd160, address, is_set, outvars, calls, stages,
                   run_result, exit_code>>

(***************************************************************************)
(* Bitcoin_ConvertInputToOutput: the fall-through switch.  A label is a    *)
(* case of the outer switch; MAKE_PUBLIC_KEY is the second inner switch of *)
(* the PRIVATE_KEY_WIF case.                                               *)
(***************************************************************************)
\* DeriveOutputs with the ADDRESS label missing from the PUBLIC_KEY case
DeriveOutputs_NoAddress(label) ==
    CASE label = "PRIVATE_KEY" ->
           {"ALL", "ADDRESS", "PUBLIC_KEY_RIPEMD160", "PUBLIC_KEY_SHA256", "PUBLIC_KEY",
            "PRIVATE_KEY_WIF"}
      [] label = "PRIVATE_KEY_WIF" ->
           {"ALL", "ADDRESS", "PUBLIC_KEY_RIPEMD160", "PUBLIC_KEY_SHA256", "PUBLIC_KEY",
            "PRIVATE_KEY"}
      [] label = "MAKE_PUBLIC_KEY" ->
           {"ALL", "ADDRESS", "PUBLIC_KEY_RIPEMD160", "PUBLIC_KEY_SHA256", "PUBLIC_KEY"}
      [] label = "PUBLIC_KEY" -> {"ALL", "PUBLIC_KEY_RIPEMD160", "PUBLIC_KEY_SHA256"}
      [] label = "PUBLIC_KEY_SHA256" -> {"ALL", "ADDRESS", "PUBLIC_KEY_RIPEMD160"}
      [] label = "PUBLIC_KEY_RIPEMD160" -> {"ALL", "ADDRESS"}
      [] label = "ADDRESS" -> {"PUBLIC_KEY_RIPEMD160"}

\* the output types whose case of the inner switch derives a value and breaks
DeriveOutputs(label) ==
    CASE label = "PRIVATE_KEY" ->
           {"ALL", "ADDRESS", "PUBLIC_KEY_RIPEMD160", "PUBLIC_KEY_SHA256", "PUBLIC_KEY",
            "PRIVATE_KEY_WIF"}
      [] label = "PRIVATE_KEY_WIF" ->
           {"ALL", "ADDRESS", "PUBLIC_KEY_RIPEMD160", "PUBLIC_KEY_SHA256", "PUBLIC_KEY",
            "PRIVATE_KEY"}
      [] label = "MAKE_PUBLIC_KEY" ->
           {"ALL", "ADDRESS", "PUBLIC_KEY_RIPEMD160", "PUBLIC_KEY_SHA256", "PUBLIC_KEY"}
      [] label = "PUBLIC_KEY" ->
           {"ALL", "ADDRESS", "PUBLIC_KEY_RIPEMD160", "PUBLIC_KEY_SHA256"}
      [] label = "PUBLIC_KEY_SHA256" -> {"ALL", "ADDRESS", "PUBLIC_KEY_RIPEMD160"}
      [] label = "PUBLIC_KEY_RIPEMD160" -> {"ALL", "ADDRESS"}
      [] label = "ADDRESS" -> {"PUBLIC_KEY_RIPEMD160"}

\* the output types whose case returns BITCOIN_SUCCESS at once
ReturnOutputs(label) ==
    CASE label = "PRIVATE_KEY" -> {"PRIVATE_KEY"}
      [] label = "PRIVATE_KEY_WIF" -> {"PRIVATE_KEY_WIF"}
      [] label = "MAKE_PUBLIC_KEY" -> {"PRIVATE_KEY_WIF", "PRIVATE_KEY"}
      [] label = "PUBLIC_KEY" -> {"PUBLIC_KEY"}
      [] label = "PUBLIC_KEY_SHA256" -> {"PUBLIC_KEY_SHA256"}
      [] label = "PUBLIC_KEY_RIPEMD160" -> {"PUBLIC_KEY_RIPEMD160"}
      [] label = "ADDRESS" -> {"ALL", "ADDRESS"}

\* ImpossibleOutputs with PUBLIC_KEY_SHA256 missing from the ADDRESS case
ImpossibleOutputs_NoSHA256(label) ==
    CASE label = "PUBLIC_KEY" -> {"PRIVATE_KEY_WIF", "PRIVATE_KEY"}
      [] label = "PUBLIC_KEY_SHA256" -> {"PUBLIC_KEY", "PRIVATE_KEY_WIF", "PRIVATE_KEY"}
      [] label = "PUBLIC_KEY_RIPEMD160" ->
           {"PUBLIC_KEY_SHA256", "PUBLIC_KEY", "PRIVATE_KEY_WIF", "PRIVATE_KEY"}
      [] label = "ADDRESS" -> {"PUBLIC_KEY", "PRIVATE_KEY_WIF", "PRIVATE_KEY"}
      [] OTHER -> {}

\* the output types whose case returns BITCOIN_ERROR_IMPOSSIBLE_CONVERSION
ImpossibleOutputs(label) ==
    CASE label = "PUBLIC_KEY" -> {"PRIVATE_KEY_WIF", "PRIVATE_KEY"}
      [] label = "PUBLIC_KEY_SHA256" -> {"PUBLIC_KEY", "PRIVATE_KEY_WIF", "PRIVATE_KEY"}
      [] label \in {"PUBLIC_KEY_RIPEMD160", "ADDRESS"} ->
           {"PUBLIC_KEY_SHA256", "PUBLIC_KEY", "PRIVATE_KEY_WIF", "PRIVATE_KEY"}
      [] OTHER -> {}

\* the caller's test "Bitcoin_ConvertInputToOutput(self) != BITCOIN_SUCCESS"
ConvertReturns(result) ==
    /\ stages' = Log("Bitcoin_ConvertInputToOutput", result)
    /\ IF result # BITCOIN_SUCCESS
       THEN RunReturns(0)
       ELSE pc' = "write" /\ UNCHANGED run_result

\* break out of the inner switch and fall through to the next label
FallsThrough(next) ==
    /\ pc' = next
    /\ UNCHANGED <<stages, run_result>>

Called(called, name) == calls' = IF called THEN Append(calls, name) ELSE calls
Raised(d, t) == is_set' = IF d THEN [is_set EXCEPT ![t] = TRUE] ELSE is_set

DerivePrivateKeyWIF(called, ok) ==
    /\ Called(called, "Bitcoin_MakePrivateKeyWIFFromPrivateKey")
    /\ Raised(called /\ ok, "PRIVATE_KEY_WIF")
    /\ UNCHANGED buffers

\* DerivePrivateKey taking the tag again from the raw length of the input
DerivePrivateKey_ResetsTag(called, ok) ==
    /\ Called(called, "Bitcoin_MakePrivateKeyFromPrivateKeyWIF")
    /\ Raised(called /\ ok, "PRIVATE_KEY")
    /\ private_key' = IF called
                      THEN [private_key EXCEPT !.public_key_compression =
                               WIFCompressionOfSize(Len(input_raw))]
                      ELSE private_key
    /\ UNCHANGED <<public_key, public_key_sha256, public_key_ripemd160, address>>

DerivePrivateKey(called, ok) ==
    /\ Called(called, "Bitcoin_MakePrivateKeyFromPrivateKeyWIF")
    /\ Raised(called /\ ok, "PRIVATE_KEY")
    /\ UNCHANGED buffers

DerivePublicKey(called, ok) ==
    /\ Called(called, "Bitcoin_MakePublicKeyFromPrivateKey")
    /\ Raised(called /\ ok, "PUBLIC_KEY")
    /\ public_key' = IF called /\ ok THEN Bitcoin_MakePublicKeyFromPrivateKey(private_key)
                     ELSE public_key
    /\ UNCHANGED <<private_key, public_key_sha256, public_key_ripemd160, address>>

DerivePublicKeySHA256(called, ok) ==
    /\ Called(called, "Bitcoin_MakeSHA256FromPublicKey")
    /\ Raised(called /\ ok, "PUBLIC_KEY_SHA256")
    /\ public_key_sha256' = IF called /\ ok THEN Bitcoin_MakeSHA256FromPublicKey(public_key)
                            ELSE public_key_sha256
    /\ UNCHANGED <<private_key, public_key, public_key_ripemd160, address>>

DerivePublicKeyRIPEMD160(called, ok) ==
    /\ Called(called, "Bitcoin_MakeRIPEMD160FromSHA256")
    /\ Raised(called /\ ok, "PUBLIC_KEY_RIPEMD160")
    /\ public_key_ripemd160' = IF called /\ ok THEN Bitcoin_MakeRIPEMD160FromSHA256(public_key_sha256)
                               ELSE public_key_ripemd160
    /\ UNCHANGED <<private_key, public_key, public_key_sha256, address>>

DeriveAddress(called, ok) ==
    /\ Called(called, "Bitcoin_MakeAddressFromRIPEMD160")
    /\ Raised(called /\ ok, "ADDRESS")
    /\ address' = IF called /\ ok THEN Bitcoin_MakeAddressFromRIPEMD160(address, public_key_ripemd160)
                  ELSE address
    /\ UNCHANGED <<private_key, public_key, public_key_sha256, public_key_ripemd160>>

DeriveRIPEMD160FromAddress(called, ok) ==
    /\ Called(called, "Bitcoin_MakeRIPEMD160FromAddress")
    /\ Raised(called /\ ok, "PUBLIC_KEY_RIPEMD160")
    /\ public_key_ripemd160' =
         IF called /\ ok THEN Bitcoin_MakeRIPEMD160FromAddress(public_key_ripemd160, address)
         ELSE public_key_ripemd160
    /\ UNCHANGED <<private_key, public_key, public_key_sha256, address>>

\* the derivation call made by the deriving cases of a label
DeriveAt(label, called, ok) ==
    CASE label = "PRIVATE_KEY" -> DerivePrivateKeyWIF(called, ok)
      [] label = "PRIVATE_KEY_WIF" -> DerivePrivateKey(called, ok)
      [] label = "MAKE_PUBLIC_KEY" -> DerivePublicKey(called, ok)
      [] label = "PUBLIC_KEY" -> DerivePublicKeySHA256(called, ok)
      [] label = "PUBLIC_KEY_SHA256" -> DerivePublicKeyRIPEMD160(called, ok)
      [] label = "PUBLIC_KEY_RIPEMD160" -> DeriveAddress(called, ok)

\* one case of the outer switch: its deriving cases call the derivation, which
\* may fail only where the code tests its result
ConvertCase(label, next, may_fail) ==
    /\ pc = label
    /\ LET o == options.output_type
       IN  IF o \in DeriveOutputs(label)
           THEN \E ok \in {TRUE} \cup {~may_fail} :
                  IF ok
                  THEN DeriveAt(label, TRUE, TRUE) /\ FallsThrough(next)
                  ELSE DeriveAt(label, TRUE, FALSE) /\ ConvertReturns(DerivationError)
           ELSE /\ DeriveAt(label, FALSE, FALSE)
                /\ IF o \in ReturnOutputs(label) THEN ConvertReturns(BITCOIN_SUCCESS)
                   ELSE IF o \in ImpossibleOutputs(label)
                   THEN ConvertReturns(BITCOIN_ERROR_IMPOSSIBLE_CONVERSION)
                   ELSE FallsThrough(next)
    /\ UNCHANGED <<tty, options, input_raw, outvars, exit_code>>

CasePrivateKey ==
    ConvertCase("PRIVATE_KEY", "PRIVATE_KEY_WIF", FALSE)
CasePrivateKeyWIF ==
    ConvertCase("PRIVATE_KEY_WIF", "MAKE_PUBLIC_KEY", FALSE)
CaseMakePublicKey ==
    ConvertCase("MAKE_PUBLIC_KEY", "PUBLIC_KEY", TRUE)
CasePublicKey ==
    ConvertCase("PUBLIC_KEY", "PUBLIC_KEY_SHA256", FALSE)
CasePublicKeySHA256 ==
    ConvertCase("PUBLIC_KEY_SHA256", "PUBLIC_KEY_RIPEMD160", FALSE)
CasePublicKeyRIPEMD160 ==
    ConvertCase("PUBLIC_KEY_RIPEMD160", "ADDRESS", FALSE)

\* the last case: every branch of it returns, the default through the end of
\* the function
CaseAddress ==
    /\ pc = "ADDRESS"
    /\ LET o == options.output_type
       IN  /\ DeriveRIPEMD160FromAddress(o \in DeriveOutputs("ADDRESS"), TRUE)
           /\ IF o \in ImpossibleOutputs("ADDRESS")
              THEN ConvertReturns(BITCOIN_ERROR_IMPOSSIBLE_CONVERSION)
              ELSE ConvertReturns(BITCOIN_SUCCESS)
    /\ UNCHANGED <<tty, options, input_raw, outvars, exit_code>>

(***************************************************************************)
(* Bitcoin_WriteOutput.                                                    *)
(***************************************************************************)
EncoderFormats == {"HEX", "BASE58", "BASE58CHECK"}

\* RawOutput with the flag byte set but not counted in the size
RawOutput_NoFlagSize(otype) ==
    CASE otype = "ADDRESS" ->
           [ok |-> TRUE, size |-> BITCOIN_ADDRESS_SIZE,
            data |-> Memcpy(output_raw, 0, address, BITCOIN_ADDRESS_SIZE)]
      [] otype = "PUBLIC_KEY_RIPEMD160" ->
           [ok |-> TRUE, size |-> BITCOIN_RIPEMD160_SIZE,
            data |-> Memcpy(output_raw, 0, public_key_ripemd160, BITCOIN_RIPEMD160_SIZE)]
      [] otype = "PUBLIC_KEY_SHA256" ->
           [ok |-> TRUE, size |-> BITCOIN_SHA256_SIZE,
            data |-> Memcpy(output_raw, 0, public_key_sha256, BITCOIN_SHA256_SIZE)]
      [] otype = "PUBLIC_KEY" ->
           [ok |-> TRUE, size |-> BitcoinPublicKey_GetSize(public_key),
            data |-> Memcpy(output_raw, 0, public_key.data,
                            BitcoinPublicKey_GetSize(public_key))]
      [] otype = "PRIVATE_KEY_WIF" ->
           LET keyed == Memcpy([output_raw EXCEPT
                                   ![1] = BITCOIN_ADDRESS_PREFIX_BITCOIN_PRIVATE_KEY],
                               BITCOIN_PRIVATE_KEY_WIF_VERSION_SIZE,
                               private_key.data, BITCOIN_PRIVATE_KEY_SIZE)
               plain == BITCOIN_PRIVATE_KEY_WIF_VERSION_SIZE + BITCOIN_PRIVATE_KEY_SIZE
           IN  CASE private_key.public_key_compression = BITCOIN_PUBLIC_KEY_COMPRESSED ->
                      [ok |-> TRUE,
                       size |-> plain,
                       data |-> [keyed EXCEPT ![plain + 1] =
                                    BITCOIN_PRIVATE_KEY_WIF_COMPRESSION_FLAG_COMPRESSED]]
                 [] private_key.public_key_compression = BITCOIN_PUBLIC_KEY_UNCOMPRESSED ->
                      [ok |-> TRUE, size |-> plain, data |-> keyed]
                 [] OTHER -> [ok |-> FALSE, size |-> output_raw_size, data |-> keyed]
      [] otype = "PRIVATE_KEY" ->
           [ok |-> TRUE, size |-> BitcoinPrivateKey_GetSize(private_key),
            data |-> Memcpy(output_raw, 0, private_key.data,
                            BitcoinPrivateKey_GetSize(private_key))]
      [] OTHER -> [ok |-> FALSE, size |-> output_raw_size, data |-> output_raw]

\* switch (self->options.output_type): the bytes put in output_raw and their
\* size, or the error return of the switch (output_raw_size is then not stored)
RawOutput(otype) ==
    CASE otype = "ADDRESS" ->
           [ok |-> TRUE, size |-> BITCOIN_ADDRESS_SIZE,
            data |-> Memcpy(output_raw, 0, address, BITCOIN_ADDRESS_SIZE)]
      [] otype = "PUBLIC_KEY_RIPEMD160" ->
           [ok |-> TRUE, size |-> BITCOIN_RIPEMD160_SIZE,
            data |-> Memcpy(output_raw, 0, public_key_ripemd160, BITCOIN_RIPEMD160_SIZE)]
      [] otype = "PUBLIC_KEY_SHA256" ->
           [ok |-> TRUE, size |-> BITCOIN_SHA256_SIZE,
            data |-> Memcpy(output_raw, 0, public_key_sha256, BITCOIN_SHA256_SIZE)]
      [] otype = "PUBLIC_KEY" ->
           [ok |-> TRUE, size |-> BitcoinPublicKey_GetSize(public_key),
            data |-> Memcpy(output_raw, 0, public_key.data,
                            BitcoinPublicKey_GetSize(public_key))]
      [] otype = "PRIVATE_KEY_WIF" ->
           LET keyed == Memcpy([output_raw EXCEPT
                                   ![1] = BITCOIN_ADDRESS_PREFIX_BITCOIN_PRIVATE_KEY],
                               BITCOIN_PRIVATE_KEY_WIF_VERSION_SIZE,
                               private_key.data, BITCOIN_PRIVATE_KEY_SIZE)
               plain == BITCOIN_PRIVATE_KEY_WIF_VERSION_SIZE + BITCOIN_PRIVATE_KEY_SIZE
           IN  CASE private_key.public_key_compression = BITCOIN_PUBLIC_KEY_COMPRESSED ->
                      [ok |-> TRUE,
                       size |-> plain + BITCOIN_PRIVATE_KEY_WIF_COMPRESSION_FLAG_SIZE,
                       data |-> [keyed EXCEPT ![plain + 1] =
                                    BITCOIN_PRIVATE_KEY_WIF_COMPRESSION_FLAG_COMPRESSED]]
                 [] private_key.public_key_compression = BITCOIN_PUBLIC_KEY_UNCOMPRESSED ->
                      [ok |-> TRUE, size |-> plain, data |-> keyed]
                 [] OTHER -> [ok |-> FALSE, size |-> output_raw_size, data |-> keyed]
      [] otype = "PRIVATE_KEY" ->
           [ok |-> TRUE, size |-> BitcoinPrivateKey_GetSize(private_key),
            data |-> Memcpy(output_raw, 0, private_key.data,
                            BitcoinPrivateKey_GetSize(private_key))]
      [] OTHER -> [ok |-> FALSE, size |-> output_raw_size, data |-> output_raw]

\* an encoder is called: the raw switch succeeded and the format has an encoder
CallsEncoder(otype, oformat) == RawOutput(otype).ok /\ oformat \in EncoderFormats

\* the text an encoder leaves in output_text for these raw bytes
Encoded(oformat, raw) == [format |-> oformat, payload |-> raw]

\* what fwrite and putchar append to standard output
Written(text) ==
    <<[kind |-> "text", text |-> text]>> \o
    (IF tty THEN <<[kind |-> "newline"]>> ELSE <<>>)

\* One call of Bitcoin_WriteOutput for a single output type, standard output
\* holding `out` before it; enc_ok: the encoder succeeds.
WriteOutputCall(otype, oformat, enc_ok, out) ==
    LET raw == RawOutput(otype)
        text == IF oformat \in EncoderFormats
                THEN Encoded(oformat, Bytes(raw.data, 0, raw.size))
                ELSE output_text
        result == IF ~raw.ok \/ oformat \notin ({"RAW"} \cup EncoderFormats)
                  THEN BITCOIN_ERROR_INVALID_FORMAT
                  ELSE IF oformat \in EncoderFormats /\ ~enc_ok THEN EncodeError
                  ELSE BITCOIN_SUCCESS
    IN  [result |-> result,
         output_raw |-> raw.data,
         output_raw_size |-> raw.size,
         output_text |-> IF result = BITCOIN_SUCCESS THEN text ELSE output_text,
         stdout |-> IF result = BITCOIN_SUCCESS THEN out \o Written(text) ELSE out]

\* the encoder outcomes a call may see: success, or an error
EncodeOutcomes(otype, oformat) ==
    {TRUE} \cup {enc_ok \in {FALSE} :
                    CallsEncoder(otype, oformat) /\ enc_calls < MaxFailingCalls}

\* the caller's test "Bitcoin_WriteOutput(self) != BITCOIN_SUCCESS", return 1 after it
WriteReturns(result) == RunReturns(IF result # BITCOIN_SUCCESS THEN 0 ELSE 1)

\* a single output type
WriteSingleOutput ==
    /\ pc = "write"
    /\ options.output_type # "ALL"
    /\ \E enc_ok \in EncodeOutcomes(options.output_type, options.output_format) :
         LET w == WriteOutputCall(options.output_type, options.output_format, enc_ok, stdout)
         IN  /\ output_raw' = w.output_raw
             /\ output_raw_size' = w.output_raw_size
             /\ output_text' = w.output_text
             /\ stdout' = w.stdout
             /\ enc_calls' = IF CallsEncoder(options.output_type, options.output_format)
                             THEN enc_calls + 1 ELSE enc_calls
             /\ stages' = Log("Bitcoin_WriteOutput", w.result)
             /\ WriteReturns(w.result)
    /\ UNCHANGED <<tty, options, input_raw, buffers, is_set, calls, type_idx, format_idx,
                   exit_code>>

(***************************************************************************)
(* Bitcoin_WriteAllOutput.                                                 *)
(***************************************************************************)
output_formats ==
    <<[output_format |-> "HEX", name |-> "hex"],
      [output_format |-> "BASE58", name |-> "base58"],
      [output_format |-> "BASE58CHECK", name |-> "base58check"]>>

output_types ==
    <<[output_type |-> "ADDRESS", name |-> "address"],
      [output_type |-> "PUBLIC_KEY_RIPEMD160", name |-> "public-key-ripemd160"],
      [output_type |-> "PUBLIC_KEY_SHA256", name |-> "public-key-sha256"],
      [output_type |-> "PUBLIC_KEY", name |-> "public-key"],
      [output_type |-> "PRIVATE_KEY_WIF", name |-> "private-key-wif"],
      [output_type |-> "PRIVATE_KEY", name |-> "private-key"]>>

\* fprintf(file, "%s.%s:", output_type->name, output_format->name)
Label(type_name, format_name) ==
    [kind |-> "label", type |-> type_name, format |-> format_name]

\* EntryIsSet with the private-key disjunct of the test left out
EntryIsSet_NoPrivateKey(otype) == otype # "PRIVATE_KEY" /\ is_set[otype]

\* the test of the inner loop body: the entry's type has its flag raised
EntryIsSet(otype) == is_set[otype]

\* what Bitcoin_WriteAllOutput returns, given the results of its entries
WriteAllResult(entry_results) == BITCOIN_SUCCESS

\* Bitcoin_WriteOutput with output type ALL: enter Bitcoin_WriteAllOutput
WriteAllEnter ==
    /\ pc = "write"
    /\ options.output_type = "ALL"
    /\ pc' = "write_all"
    /\ type_idx' = 1
    /\ format_idx' = 1
    /\ UNCHANGED <<tty, options, input_raw, buffers, is_set, output_raw, output_raw_size,
                   output_text, stdout, enc_calls, calls, stages, run_result, exit_code>>

\* one iteration of the inner loop, the result of Bitcoin_WriteOutput dropped
WriteAllEntry ==
    /\ pc = "write_all"
    /\ type_idx <= Len(output_types)
    /\ LET ot == output_types[type_idx]
           of == output_formats[format_idx]
       IN  IF EntryIsSet(ot.output_type)
           THEN \E enc_ok \in EncodeOutcomes(ot.output_type, of.output_format) :
                  LET w == WriteOutputCall(ot.output_type, of.output_format, enc_ok,
                                           Append(stdout, Label(ot.name, of.name)))
                  IN  /\ options' = [options EXCEPT !.output_type = ot.output_type,
                                                    !.output_format = of.output_format]
                      /\ output_raw' = w.output_raw
                      /\ output_raw_size' = w.output_raw_size
                      /\ output_text' = w.output_text
                      /\ stdout' = w.stdout
                      /\ enc_calls' = IF CallsEncoder(ot.output_type, of.output_format)
                                      THEN enc_calls + 1 ELSE enc_calls
                      /\ stages' = Log("Bitcoin_WriteOutput", w.result)
           ELSE UNCHANGED <<options, output_raw, output_raw_size, output_text, stdout,
                            enc_calls, stages>>
    /\ IF format_idx < Len(output_formats)
       THEN format_idx' = format_idx + 1 /\ type_idx' = type_idx
       ELSE format_idx' = 1 /\ type_idx' = type_idx + 1
    /\ UNCHANGED <<pc, tty, input_raw, buffers, is_set, calls, run_result, exit_code>>

\* the loops are over: return to Bitcoin_WriteOutput, which returns to run
WriteAllReturn ==
    /\ pc = "write_all"
    /\ type_idx > Len(output_types)
    /\ LET entries == SelectSeq(stages, LAMBDA s : s.stage = "Bitcoin_WriteOutput")
           result == WriteAllResult([i \in DOMAIN entries |-> entries[i].result])
       IN  /\ stages' = Log("Bitcoin_WriteAllOutput", result)
           /\ WriteReturns(result)
    /\ UNCHANGED <<tty, options, input_raw, buffers, is_set, outvars, calls, exit_code>>

(***************************************************************************)
(* The run.                                                                *)
(***************************************************************************)
Next ==
    \/ ParseOptionsOk
    \/ ParseOptionsFail
    \/ ParseInputNoInput
    \/ ParseInputInvalid
    \/ ParseInputOk
    \/ Bitcoin_CheckInputSize
    \/ OverrideCompression
    \/ CasePrivateKey
    \/ CasePrivateKeyWIF
    \/ CaseMakePublicKey
    \/ CasePublicKey
    \/ CasePublicKeySHA256
    \/ CasePublicKeyRIPEMD160
    \/ CaseAddress
    \/ WriteSingleOutput
    \/ WriteAllEnter
    \/ WriteAllEntry
    \/ WriteAllReturn
    \/ MainReturn

Spec == Init /\ [][Next]_vars

(***************************************************************************)
(* The derivation chain followed by the reverse edge: the conversion to an *)
(* Address from a validated PrivateKey or PublicKeyRIPEMD160 input, whose  *)
(* bytes are drawn from the samples, and then                              *)
(* Bitcoin_MakeRIPEMD160FromAddress applied to the address it built.       *)
(***************************************************************************)
Ramp(n, a, b) == [i \in 1..n |-> (a * i + b) % 256]
HashSamples ==
    {Ramp(BITCOIN_RIPEMD160_SIZE, a, b) : a \in 0..MaxSlope, b \in {0, 1, 127, 128, 255}}
KeySamples ==
    {Ramp(BITCOIN_PRIVATE_KEY_SIZE, a, b) : a \in {1, MaxSlope}, b \in {0, 255}}

\* the tool object after Bitcoin_CheckInputSize and the override switch
ChainInit ==
    /\ tty = FALSE
    /\ options \in {[input_type |-> t, input_format |-> "RAW", output_type |-> "ADDRESS",
                     output_format |-> "HEX", public_key_compression |-> c] :
                       t \in {"PRIVATE_KEY", "PUBLIC_KEY_RIPEMD160"},
                       c \in PublicKeyCompression}
    /\ input_raw \in (IF options.input_type = "PRIVATE_KEY" THEN KeySamples
                                                              ELSE HashSamples)
    /\ private_key =
         [data |-> IF options.input_type = "PRIVATE_KEY"
                   THEN Memcpy(Zeros(BITCOIN_PRIVATE_KEY_SIZE), 0, input_raw, Len(input_raw))
                   ELSE Zeros(BITCOIN_PRIVATE_KEY_SIZE),
          public_key_compression |->
              OverrideOf(options.public_key_compression, CallocCompression)]
    /\ public_key = [data |-> Zeros(BITCOIN_PUBLIC_KEY_UNCOMPRESSED_SIZE),
                     compression |-> CallocCompression]
    /\ public_key_sha256 = Zeros(BITCOIN_SHA256_SIZE)
    /\ public_key_ripemd160 =
         IF options.input_type = "PUBLIC_KEY_RIPEMD160"
         THEN Memcpy(Zeros(BITCOIN_RIPEMD160_SIZE), 0, input_raw, BITCOIN_RIPEMD160_SIZE)
         ELSE Zeros(BITCOIN_RIPEMD160_SIZE)
    /\ address = Zeros(BITCOIN_ADDRESS_SIZE)
    /\ is_set = [NoFlags EXCEPT ![options.input_type] = TRUE]
    /\ output_raw = Zeros(BITCOIN_PUBLIC_KEY_UNCOMPRESSED_SIZE)
    /\ output_raw_size = 0
    /\ output_text = ZeroText
    /\ stdout = <<>>
    /\ calls = <<>>
    /\ stages = <<[stage |-> "Bitcoin_ParseInput", result |-> BITCOIN_SUCCESS],
                  [stage |-> "Bitcoin_CheckInputSize", result |-> BITCOIN_SUCCESS]>>
    /\ type_idx = 1
    /\ format_idx = 1
    /\ enc_calls = 0
    /\ run_result = 0
    /\ exit_code = -1
    \* Bitcoin_ConvertInputToOutput: switch (self->options.input_type)
    /\ pc = options.input_type

\* the address built by the chain is converted back
ConvertAddressBack ==
    /\ pc = "ADDRESS"
    /\ is_set["ADDRESS"]
    /\ DeriveRIPEMD160FromAddress(TRUE, TRUE)
    /\ pc' = "converted_back"
    /\ UNCHANGED <<tty, options, input_raw, outvars, stages, run_result, exit_code>>

ChainNext ==
    \/ CasePrivateKey
    \/ CasePrivateKeyWIF
    \/ CaseMakePublicKey
    \/ CasePublicKey
    \/ CasePublicKeySHA256
    \/ CasePublicKeyRIPEMD160
    \/ ConvertAddressBack

ChainSpec == ChainInit /\ [][ChainNext]_vars

(***************************************************************************)
(* Vocabulary of the properties.                                           *)
(***************************************************************************)
StageIdx(name) == {i \in DOMAIN stages : stages[i].stage = name}
Ran(name) == StageIdx(name) # {}
ResultOf(name) == stages[CHOOSE i \in StageIdx(name) : TRUE].result
Succeeded(name) == Ran(name) /\ ResultOf(name) = BITCOIN_SUCCESS

\* the run is in, or went through, the "all" dispatch
AllDispatch == pc = "write_all" \/ Ran("Bitcoin_WriteAllOutput")
\* the run was asked for one output type, which options.output_type still names
SingleRequest == options.output_type \in RepresentationTypes /\ ~AllDispatch
\* no call of Bitcoin_WriteOutput has failed so far
EveryEntryEncoded ==
    \A i \in StageIdx("Bitcoin_WriteOutput") : stages[i].result = BITCOIN_SUCCESS

Done == pc = "exit"

\* the derivation graph of the specification, reverse edges included
GraphEdges ==
    {<<"PRIVATE_KEY", "PRIVATE_KEY_WIF">>, <<"PRIVATE_KEY_WIF", "PRIVATE_KEY">>,
     <<"PRIVATE_KEY", "PUBLIC_KEY">>, <<"PUBLIC_KEY", "PUBLIC_KEY_SHA256">>,
     <<"PUBLIC_KEY_SHA256", "PUBLIC_KEY_RIPEMD160">>,
     <<"PUBLIC_KEY_RIPEMD160", "ADDRESS">>, <<"ADDRESS", "PUBLIC_KEY_RIPEMD160">>}

RECURSIVE ReachableFrom(_)
ReachableFrom(S) ==
    LET more == S \cup {e[2] : e \in {d \in GraphEdges : d[1] \in S}}
    IN  IF more = S THEN S ELSE ReachableFrom(more)

\* the types derivable from an input type on the graph
Derivable(t) == ReachableFrom({t})

\* position on the chain PrivateKey -> PublicKey -> SHA256 -> RIPEMD160 -> Address
\* (PrivateKeyWIF shares the tier of PrivateKey)
Tier(t) ==
    CASE t \in {"PRIVATE_KEY", "PRIVATE_KEY_WIF"} -> 0
      [] t = "PUBLIC_KEY" -> 1
      [] t = "PUBLIC_KEY_SHA256" -> 2
      [] t = "PUBLIC_KEY_RIPEMD160" -> 3
      [] t = "ADDRESS" -> 4

\* the types on the graph path from i to o, both ends included
PathTypes(i, o) ==
    IF Tier(i) >= Tier(o)
    THEN {i, o}
    ELSE {i} \cup {t \in RepresentationTypes \ {"PRIVATE_KEY_WIF"} :
                     Tier(i) <= Tier(t) /\ Tier(t) <= Tier(o)}

\* the type a derivation function produces
ProductOf(call) ==
    CASE call = "Bitcoin_MakePrivateKeyWIFFromPrivateKey" -> "PRIVATE_KEY_WIF"
      [] call = "Bitcoin_MakePrivateKeyFromPrivateKeyWIF" -> "PRIVATE_KEY"
      [] call = "Bitcoin_MakePublicKeyFromPrivateKey" -> "PUBLIC_KEY"
      [] call = "Bitcoin_MakeSHA256FromPublicKey" -> "PUBLIC_KEY_SHA256"
      [] call = "Bitcoin_MakeRIPEMD160FromSHA256" -> "PUBLIC_KEY_RIPEMD160"
      [] call = "Bitcoin_MakeRIPEMD160FromAddress" -> "PUBLIC_KEY_RIPEMD160"
      [] call = "Bitcoin_MakeAddressFromRIPEMD160" -> "ADDRESS"

(***************************************************************************)
(* C1.  If any stage fails, the run aborts at that point: no later stage   *)
(* executes and nothing has been written to standard output.               *)
(***************************************************************************)
C1_AbortsWithoutOutput ==
    \A i \in DOMAIN stages :
        stages[i].result # BITCOIN_SUCCESS =>
            /\ i = Len(stages)
            /\ pc \in {"returned", "exit"}
            /\ stdout = <<>>

(***************************************************************************)
(* C2.  For a valid input of type I and a single output type O, the        *)
(* conversion fails with ImpossibleConversion exactly for the listed       *)
(* (I, O) pairs, and then no derivation was called and nothing is written. *)
(***************************************************************************)
ListedImpossible ==
    ({"PUBLIC_KEY"} \X {"PRIVATE_KEY", "PRIVATE_KEY_WIF"})
    \cup ({"PUBLIC_KEY_SHA256"} \X {"PUBLIC_KEY", "PRIVATE_KEY_WIF", "PRIVATE_KEY"})
    \cup ({"PUBLIC_KEY_RIPEMD160", "ADDRESS"} \X
          {"PUBLIC_KEY_SHA256", "PUBLIC_KEY", "PRIVATE_KEY_WIF", "PRIVATE_KEY"})

C2_ImpossibleExactlyListed ==
    (SingleRequest /\ Ran("Bitcoin_ConvertInputToOutput")) =>
        LET r == ResultOf("Bitcoin_ConvertInputToOutput")
        IN  /\ (r = BITCOIN_ERROR_IMPOSSIBLE_CONVERSION) <=>
                 (<<options.input_type, options.output_type>> \in ListedImpossible)
            /\ (r = BITCOIN_ERROR_IMPOSSIBLE_CONVERSION) =>
                 /\ calls = <<>>
                 /\ stdout = <<>>
                 /\ ~Ran("Bitcoin_WriteOutput")

C2_Witness ==
    /\ Done
    /\ options.input_type = "ADDRESS"
    /\ options.output_type = "PUBLIC_KEY_SHA256"
    /\ Ran("Bitcoin_ConvertInputToOutput")
    /\ ResultOf("Bitcoin_ConvertInputToOutput") = BITCOIN_ERROR_IMPOSSIBLE_CONVERSION

(***************************************************************************)
(* C3.  When the conversion to a single output type O succeeds, every type *)
(* on the path from I to O has its flag raised, and the walk stops at O:   *)
(* no derivation producing a type beyond O was called, no flag beyond O    *)
(* is raised.                                                              *)
(***************************************************************************)
C3_PathSetAndShortCircuit ==
    (SingleRequest /\ Succeeded("Bitcoin_ConvertInputToOutput")) =>
        LET i == options.input_type
            o == options.output_type
        IN  /\ \A t \in PathTypes(i, o) : is_set[t]
            /\ \A k \in DOMAIN calls : Tier(ProductOf(calls[k])) <= Tier(o)
            /\ \A t \in RepresentationTypes : is_set[t] => (t = i \/ Tier(t) <= Tier(o))

C3_Witness ==
    /\ Done
    /\ exit_code = EXIT_SUCCESS
    /\ options.input_type = "PRIVATE_KEY_WIF"
    /\ options.output_type = "PUBLIC_KEY_SHA256"
    /\ Len(calls) = 3

\* the raw bytes of a type's value, as the data model lays them out
ValueOf(t) ==
    CASE t = "ADDRESS" -> address
      [] t = "PUBLIC_KEY_RIPEMD160" -> public_key_ripemd160
      [] t = "PUBLIC_KEY_SHA256" -> public_key_sha256
      [] t = "PUBLIC_KEY" ->
           Bytes(public_key.data, 0,
                 IF public_key.compression = BITCOIN_PUBLIC_KEY_COMPRESSED THEN 33 ELSE 65)
      [] t = "PRIVATE_KEY_WIF" ->
           <<128>> \o private_key.data \o
           (IF private_key.public_key_compression = BITCOIN_PUBLIC_KEY_COMPRESSED
            THEN <<1>> ELSE <<>>)
      [] t = "PRIVATE_KEY" -> private_key.data

\* positions of standard output holding a "<type-name>.<format-name>:" label
LabelsAt == {k \in DOMAIN stdout : stdout[k].kind = "label"}
NewlineCount == Cardinality({k \in DOMAIN stdout : stdout[k].kind = "newline"})
TextCount == Cardinality({k \in DOMAIN stdout : stdout[k].kind = "text"})

TypeOrder ==
    <<"ADDRESS", "PUBLIC_KEY_RIPEMD160", "PUBLIC_KEY_SHA256", "PUBLIC_KEY",
      "PRIVATE_KEY_WIF", "PRIVATE_KEY">>
TypeNames ==
    <<"address", "public-key-ripemd160", "public-key-sha256", "public-key",
      "private-key-wif", "private-key">>
FormatOrder == <<"HEX", "BASE58", "BASE58CHECK">>
FormatNames == <<"hex", "base58", "base58check">>

\* the (type, format) pairs whose label is followed by a text on standard output
EmittedPairs ==
    {<<TypeOrder[t], FormatOrder[f]>> : <<t, f>> \in
        {p \in (1..6) \X (1..3) :
            \E k \in LabelsAt :
                /\ stdout[k].type = TypeNames[p[1]]
                /\ stdout[k].format = FormatNames[p[2]]
                /\ k < Len(stdout)
                /\ stdout[k + 1].kind = "text"}}

\* the rank of a label in the order of the "all" listing, 0 if it has none
Rank(tok) ==
    IF \E t \in 1..6, f \in 1..3 : tok.type = TypeNames[t] /\ tok.format = FormatNames[f]
    THEN LET t == CHOOSE t \in 1..6 : tok.type = TypeNames[t]
             f == CHOOSE f \in 1..3 : tok.format = FormatNames[f]
         IN  3 * t + f
    ELSE 0

(***************************************************************************)
(* C4.  For output type "all" the types emitted are exactly those          *)
(* derivable from the input type on the graph, reverse edges included,     *)
(* each in Hex, Base58 and Base58Check.                                    *)
(***************************************************************************)
C4_AllEmitsDerivable ==
    (Done /\ Succeeded("Bitcoin_WriteAllOutput") /\ EveryEntryEncoded) =>
        EmittedPairs = Derivable(options.input_type) \X {"HEX", "BASE58", "BASE58CHECK"}

(***************************************************************************)
(* C5.  "all" on a valid PrivateKey input, every capability succeeding,    *)
(* emits exactly 18 lines, whatever the compression option and whether or  *)
(* not standard input is a terminal.                                       *)
(***************************************************************************)
PrivateKeyAllDone ==
    /\ Done
    /\ options.input_type = "PRIVATE_KEY"
    /\ Succeeded("Bitcoin_WriteAllOutput")
    /\ EveryEntryEncoded

C5_EighteenLines == PrivateKeyAllDone => NewlineCount = 18

\* C5 as amended: 18 entries, one per type and format, whatever the
\* compression option; each ends in a newline exactly when standard input
\* is a terminal, and no newline is written otherwise.
C5_EighteenEntries ==
    PrivateKeyAllDone =>
        /\ Cardinality(LabelsAt) = 18
        /\ TextCount = 18
        /\ EmittedPairs = RepresentationTypes \X {"HEX", "BASE58", "BASE58CHECK"}
        /\ NewlineCount = IF tty THEN 18 ELSE 0

C5_Witness ==
    /\ PrivateKeyAllDone
    /\ options.public_key_compression = "AUTO"
    /\ ~tty
    /\ Cardinality(LabelsAt) = 18

(***************************************************************************)
(* C6.  In an "all" dispatch the entries come in the order Address,        *)
(* PublicKeyRIPEMD160, PublicKeySHA256, PublicKey, PrivateKeyWIF,          *)
(* PrivateKey and, within a type, Hex, Base58, Base58Check; only types     *)
(* whose flag is raised appear, Raw never, no pair twice; and each entry   *)
(* is its label followed by the encoding of that value.                    *)
(***************************************************************************)
C6_AllOrderAndEntries ==
    AllDispatch =>
        /\ \A k \in LabelsAt :
             \E t \in 1..6, f \in 1..3 :
                /\ stdout[k].type = TypeNames[t]
                /\ stdout[k].format = FormatNames[f]
                /\ is_set[TypeOrder[t]]
                /\ k < Len(stdout)
                /\ stdout[k + 1] =
                     [kind |-> "text",
                      text |-> [format |-> FormatOrder[f], payload |-> ValueOf(TypeOrder[t])]]
        /\ \A k1, k2 \in LabelsAt : k1 < k2 => Rank(stdout[k1]) < Rank(stdout[k2])

(***************************************************************************)
(* C7.  In an "all" dispatch an encoding failure aborts the dispatch: no   *)
(* entry follows the failing one and Bitcoin_WriteAllOutput reports the    *)
(* failure.                                                                *)
(***************************************************************************)
C7_AllAbortsOnFailure ==
    AllDispatch =>
        \A i \in StageIdx("Bitcoin_WriteOutput") :
            stages[i].result # BITCOIN_SUCCESS =>
                /\ \A j \in StageIdx("Bitcoin_WriteOutput") : j <= i
                /\ \A j \in StageIdx("Bitcoin_WriteAllOutput") :
                      stages[j].result # BITCOIN_SUCCESS

(***************************************************************************)
(* C8.  The exit code is 0 exactly when decoding, size validation,         *)
(* conversion and the encoding of every output value succeeded, and 1      *)
(* otherwise, also when a required type or format is left unspecified.     *)
(***************************************************************************)
EveryStageSucceeded ==
    /\ Succeeded("Bitcoin_ParseInput")
    /\ Succeeded("Bitcoin_CheckInputSize")
    /\ Succeeded("Bitcoin_ConvertInputToOutput")
    /\ Ran("Bitcoin_WriteOutput")
    /\ \A i \in DOMAIN stages : stages[i].result = BITCOIN_SUCCESS

C8_ExitCode ==
    Done =>
        /\ exit_code \in {EXIT_SUCCESS, EXIT_FAILURE}
        /\ (exit_code = EXIT_SUCCESS) <=> EveryStageSucceeded
        /\ ("NONE" \in {options.input_type, options.input_format, options.output_type,
                        options.output_format}) => exit_code = EXIT_FAILURE

(***************************************************************************)
(* C9.  Bitcoin_CheckInputSize accepts input of declared type T exactly    *)
(* when its raw length is in T's expected set; otherwise (a 33- or 34-byte *)
(* PrivateKey included) it returns an error, raises no flag, and the run   *)
(* ends non-zero without conversion or output.                             *)
(***************************************************************************)
StatedSizes(t) ==
    CASE t = "PRIVATE_KEY" -> {32}
      [] t = "PRIVATE_KEY_WIF" -> {33, 34}
      [] t = "PUBLIC_KEY" -> {33, 65}
      [] t = "PUBLIC_KEY_SHA256" -> {32}
      [] t = "PUBLIC_KEY_RIPEMD160" -> {20}
      [] t = "ADDRESS" -> {21}

C9_SizeValidation ==
    (Ran("Bitcoin_CheckInputSize") /\ options.input_type \in RepresentationTypes) =>
        LET r == ResultOf("Bitcoin_CheckInputSize")
        IN  /\ (r = BITCOIN_SUCCESS) <=> (Len(input_raw) \in StatedSizes(options.input_type))
            /\ (r # BITCOIN_SUCCESS) =>
                 /\ is_set = NoFlags
                 /\ calls = <<>>
                 /\ stdout = <<>>
                 /\ ~Ran("Bitcoin_ConvertInputToOutput")
                 /\ ~Ran("Bitcoin_WriteOutput")
                 /\ pc \in {"returned", "exit"}
                 /\ run_result = 0
                 /\ Done => exit_code = EXIT_FAILURE

C9_Witness ==
    /\ Done
    /\ exit_code = EXIT_FAILURE
    /\ options.input_type = "PRIVATE_KEY"
    /\ Len(input_raw) = 33
    /\ PrivateKeySizeHint(Len(input_raw))
    /\ Ran("Bitcoin_CheckInputSize")

(***************************************************************************)
(* C10.  With the compression option at Auto and input type PrivateKeyWIF  *)
(* the compression mode in force after validation, for the public key      *)
(* derived and for a WIF output, is Compressed for a raw length of 34 and  *)
(* Uncompressed for 33.                                                    *)
(***************************************************************************)
StatedWIFMode(n) == IF n = 34 THEN "COMPRESSED" ELSE "UNCOMPRESSED"

C10_AutoFollowsWIFLength ==
    (/\ options.public_key_compression = "AUTO"
     /\ options.input_type = "PRIVATE_KEY_WIF"
     /\ Succeeded("Bitcoin_CheckInputSize")) =>
        LET mode == StatedWIFMode(Len(input_raw))
        IN  /\ private_key.public_key_compression = mode
            /\ is_set["PUBLIC_KEY"] =>
                 /\ public_key.compression = mode
                 /\ BitcoinPublicKey_GetSize(public_key) = IF mode = "COMPRESSED" THEN 33 ELSE 65
            /\ (/\ options.output_type = "PRIVATE_KEY_WIF"
                /\ stages[Len(stages)] = [stage |-> "Bitcoin_WriteOutput",
                                          result |-> BITCOIN_SUCCESS]) =>
                 output_raw_size = Len(input_raw)

C10_Witness ==
    /\ Done
    /\ exit_code = EXIT_SUCCESS
    /\ options.public_key_compression = "AUTO"
    /\ options.input_type = "PRIVATE_KEY_WIF"
    /\ options.output_type = "PRIVATE_KEY_WIF"
    /\ Len(input_raw) = 34
    /\ output_raw_size = 34

(***************************************************************************)
(* C11.  With the compression option at Auto and a PrivateKey input of 32  *)
(* bytes, the compression mode in force is Uncompressed: the tag of the    *)
(* private key is Uncompressed from validation on, a derived public key is *)
(* uncompressed (65 bytes), and a PrivateKeyWIF output has 33 raw bytes    *)
(* and does not fail as unspecified.                                       *)
(***************************************************************************)
\* the last stage executed is a call of Bitcoin_WriteOutput for a WIF output
WIFOutputWritten ==
    /\ stages # <<>>
    /\ stages[Len(stages)].stage = "Bitcoin_WriteOutput"
    /\ options.output_type = "PRIVATE_KEY_WIF"

\* that call returned the error of the type switch, the format being a known one
FailedAsUnspecified ==
    /\ stages[Len(stages)].result = BITCOIN_ERROR_INVALID_FORMAT
    /\ options.output_format \in {"RAW"} \cup EncoderFormats

\* the public key was derived from the private key in this run
PublicKeyDerived ==
    /\ is_set["PUBLIC_KEY"]
    /\ \E i \in DOMAIN calls : calls[i] = "Bitcoin_MakePublicKeyFromPrivateKey"

PastOverride ==
    Succeeded("Bitcoin_CheckInputSize") /\ pc # "override"

C12_OptionOverridesMode ==
    PastOverride =>
        LET option == options.public_key_compression
            size == IF option = "COMPRESSED" THEN 33 ELSE 65
        IN  /\ option \in {"COMPRESSED", "UNCOMPRESSED"} =>
                 /\ private_key.public_key_compression = option
                 /\ PublicKeyDerived =>
                      /\ public_key.compression = option
                      /\ BitcoinPublicKey_GetSize(public_key) = size
                 /\ WIFOutputWritten =>
                      /\ ~FailedAsUnspecified
                      /\ output_raw_size = IF option = "COMPRESSED" THEN 34 ELSE 33
            /\ (option = "AUTO" /\ options.input_type = "PRIVATE_KEY_WIF") =>
                 private_key.public_key_compression = StatedWIFMode(Len(input_raw))

C12_Witness ==
    /\ Done
    /\ exit_code = EXIT_SUCCESS
    /\ options.public_key_compression = "UNCOMPRESSED"
    /\ options.input_type = "PRIVATE_KEY_WIF"
    /\ Len(input_raw) = 34
    /\ AllDispatch
    /\ PublicKeyDerived
    /\ public_key.compression = "UNCOMPRESSED"
    /\ \E i \in DOMAIN stdout :
         /\ stdout[i].kind = "text"
         /\ Len(stdout[i].text.payload) = 33
         /\ stdout[i].text.payload[1] = 128

(***************************************************************************)
(* C13.  Reverse-edge consistency: the address built from a 20-byte hash   *)
(* is the version byte 0x00 followed by the hash, and                      *)
(* Bitcoin_MakeRIPEMD160FromAddress applied to it gives the hash back: the *)
(* hash given as input, or the one the chain from a PrivateKey obtained at *)
(* its PublicKeyRIPEMD160 step.                                            *)
(***************************************************************************)
\* the hash at the PublicKeyRIPEMD160 step of the chain
HashAtStep ==
    IF options.input_type = "PUBLIC_KEY_RIPEMD160"
    THEN input_raw
    ELSE Bitcoin_RIPEMD160(public_key_sha256)

C13_ReverseEdgeConsistent ==
    /\ pc \in {"ADDRESS", "converted_back"} =>
         /\ Len(address) = 21
         /\ address = <<0>> \o HashAtStep
    /\ pc = "converted_back" =>
         /\ Len(public_key_ripemd160) = 20
         /\ public_key_ripemd160 = HashAtStep

C13_Witness ==
    /\ pc = "converted_back"
    /\ options.input_type = "PRIVATE_KEY"
    /\ PublicKeyDerived
    /\ SubSeq(calls, Len(calls) - 3, Len(calls)) =
         <<"Bitcoin_MakeSHA256FromPublicKey",
           "Bitcoin_MakeRIPEMD160FromSHA256",
           "Bitcoin_MakeAddressFromRIPEMD160",
           "Bitcoin_MakeRIPEMD160FromAddress">>
    /\ public_key_ripemd160 # Zeros(BITCOIN_RIPEMD160_SIZE)
    /\ public_key_ripemd160[1] # public_key_ripemd160[2]

(***************************************************************************)
(* C14.  The raw bytes built for a PrivateKeyWIF output are one version    *)
(* byte, the 32 bytes of the private key, and one compression-flag byte    *)
(* exactly when the mode in force is Compressed: 34 bytes when Compressed, *)
(* 33 when Uncompressed; a mode that is neither makes the output fail and  *)
(* no bytes are handed on.                                                 *)
(***************************************************************************)
C14_WIFRawLayout ==
    WIFOutputWritten =>
        LET mode == private_key.public_key_compression
            raw == Bytes(output_raw, 0, output_raw_size)
            last == stages[Len(stages)]
        IN  IF mode \in {"COMPRESSED", "UNCOMPRESSED"}
            THEN /\ ~FailedAsUnspecified
                 /\ output_raw_size = IF mode = "COMPRESSED" THEN 34 ELSE 33
                 /\ raw = ValueOf("PRIVATE_KEY_WIF")
                 /\ Bytes(raw, 1, 32) = private_key.data
                 /\ (mode = "COMPRESSED") <=> (Len(raw) = 1 + 32 + 1)
                 /\ (last.result = BITCOIN_SUCCESS
                        /\ options.output_format \in EncoderFormats) =>
                      output_text.payload = raw
            ELSE /\ last.result = BITCOIN_ERROR_INVALID_FORMAT
                 /\ \A i \in DOMAIN stdout : stdout[i].kind # "text"

C14_Witness ==
    /\ Done
    /\ exit_code = EXIT_SUCCESS
    /\ SingleRequest
    /\ options.input_type = "PRIVATE_KEY"
    /\ options.output_type = "PRIVATE_KEY_WIF"
    /\ options.output_format = "BASE58CHECK"
    /\ private_key.public_key_compression = "COMPRESSED"
    /\ output_raw_size = 34
    /\ output_raw[34] = 1
    /\ Len(output_text.payload) = 34

(***************************************************************************)
(* C15.  The compression mode is resolved once, after size validation and  *)
(* before the first derivation step, and is frozen thereafter: from the    *)
(* start of Bitcoin_ConvertInputToOutput to the end of the run, every      *)
(* iteration of the "all" dispatch included, no step changes the tag of    *)
(* the private key.                                                        *)
(***************************************************************************)
C15_ModeFrozen ==
    [][/\ PastOverride =>
            private_key.public_key_compression' = private_key.public_key_compression
       /\ pc = "override" =>
            /\ Succeeded("Bitcoin_CheckInputSize")
            /\ calls = <<>>
            /\ calls' = <<>>
            /\ ~Ran("Bitcoin_ConvertInputToOutput")]_vars

C15_Witness ==
    /\ Done
    /\ AllDispatch
    /\ options.public_key_compression = "COMPRESSED"
    /\ options.input_type = "PRIVATE_KEY_WIF"
    /\ Len(input_raw) = 33
    /\ private_key.public_key_compression = "COMPRESSED"
    /\ Len(calls) >= 5
    /\ TextCount = 18

(***************************************************************************)
(* C16.  A type's set flag is raised exactly when its buffer holds a value *)
(* produced in this run by decoding the input or by a derivation step:     *)
(* after successful validation exactly one flag, that of the declared      *)
(* input type, is raised and that type's buffer holds the decoded input    *)
(* bytes, for all six input types; a raised flag is never cleared and the  *)
(* buffer of a raised flag is never written again.                         *)
(***************************************************************************)
\* the buffer that holds a type's value (a WIF key is kept as its private key)
BufferOf(t) ==
    CASE t = "ADDRESS" -> address
      [] t = "PUBLIC_KEY_RIPEMD160" -> public_key_ripemd160
      [] t = "PUBLIC_KEY_SHA256" -> public_key_sha256
      [] t = "PUBLIC_KEY" -> Bytes(public_key.data, 0, BitcoinPublicKey_GetSize(public_key))
      [] t \in {"PRIVATE_KEY_WIF", "PRIVATE_KEY"} -> private_key.data

\* the bytes of the decoded input that are the value of the declared type
DecodedInput(t) ==
    IF t = "PRIVATE_KEY_WIF" THEN Bytes(input_raw, 1, 32) ELSE input_raw

\* the flags raised
FlagsRaised == {t \in RepresentationTypes : is_set[t]}

\* a derivation step of this run produced the type
DerivedInRun(t) == \E i \in DOMAIN calls : ProductOf(calls[i]) = t

C16_FlagsMatchBuffers ==
    [][/\ pc = "override" =>
            /\ FlagsRaised = {options.input_type}
            /\ BufferOf(options.input_type) = DecodedInput(options.input_type)
       /\ \A t \in FlagsRaised :
            /\ t = options.input_type \/ DerivedInRun(t)
            /\ is_set'[t]
            /\ BufferOf(t)' = BufferOf(t)]_vars

(***************************************************************************)
(* C17.  Identity conversion: for every type T and every raw input that    *)
(* passes size validation as T, a run with output type T and the           *)
(* compression option at Auto hands to the encoder raw output bytes equal  *)
(* to the decoded raw input bytes, same length and same content, the       *)
(* version and flag bytes of a PrivateKeyWIF input and the 32 bytes of a   *)
(* PublicKeySHA256 input included.                                         *)
(***************************************************************************)
\* a single-output run whose output type is its input type reached the encoder
IdentityRunEncoded ==
    /\ SingleRequest
    /\ options.public_key_compression = "AUTO"
    /\ options.output_type = options.input_type
    /\ options.output_format \in EncoderFormats
    /\ Ran("Bitcoin_WriteOutput")

C17_IdentityConversion ==
    IdentityRunEncoded =>
        /\ output_raw_size = Len(input_raw)
        /\ Bytes(output_raw, 0, output_raw_size) = input_raw
        /\ ResultOf("Bitcoin_WriteOutput") = BITCOIN_SUCCESS => output_text.payload = input_raw

====
